---- MODULE Spec2Model ----
(***************************************************************************)
(* Model of the client session core of ricq                               *)
(* (ricq/src/client/api/mod.rs) and of the element classifier             *)
(* (ricq-core/src/msg/elem/mod.rs).                                       *)
(*                                                                         *)
(* Every call of the client API is run by a task.  A task's position in   *)
(* the call is pc[t]; each await point of the source is a separate step,  *)
(* so that the engine lock, the transport and the highway transfer are    *)
(* observed between the steps.                                             *)
(***************************************************************************)
EXTENDS Integers, Sequences, FiniteSets, TLC

(***************************************************************************)
(* Bounds of the model.                                                    *)
(***************************************************************************)
NumTasks == 2
MaxPages == 3
MaxPageMsgs == 1

Tasks == 1 .. NumTasks

(***************************************************************************)
(* Program constants.                                                      *)
(***************************************************************************)
SYNC_START == 0
SYNC_CONTINUE == 1
SYNC_STOP == 2

VARIABLES
    op,                  \* the call every task makes
    pc,                  \* position of every task in its call
    readers,             \* tasks holding a shared guard of self.engine
    writer,              \* tasks holding the exclusive guard of self.engine
    sync_cookie,         \* engine.transport.sig.sync_cookie
    pub_account_cookie,  \* engine.transport.sig.pub_account_cookie
    sent,                \* per task: the requests handed to the transport
    result,              \* per task: the value the call returned
    sync_flag,           \* sync_all_message: local sync_flag
    msgs,                \* sync_all_message: local msgs
    resp,                \* sync_all_message: local resp
    fetched,             \* history: messages and next flag of the pages decoded
    acked,               \* history: the number of pages acknowledged so far
    failed,              \* history: the step of the call that failed first
    session_key,         \* highway_session.session_key
    hw_readers,          \* tasks holding a shared guard of self.highway_session
    is_long,             \* upload_msgs: argument is_long
    rsp,                 \* upload_msgs: local rsp
    addrs,               \* upload_msgs: the candidates the for loop has left
    transfers,           \* history: outcomes of the highway transfers that ended
    status,              \* update_online_status: status.custom_status
    src_text_list,       \* translate: argument src_text_list
    translations,        \* translate: local translations
    awaited,             \* history: the send_and_wait calls that returned Ok
    friend_seq,          \* engine: the sequence number next_friend_seq gives next
    receipt_waiters,     \* self.receipt_waiters: nonce -> the task whose tx it holds
    waiters_lock,        \* tasks holding the mutex of self.receipt_waiters
    seq,                 \* send_message: local seq
    ran,                 \* send_message: local ran
    registered,          \* history: the nonces the call has put in the registry
    down_resp,           \* download_msgs: local resp
    descriptor,          \* history: the descriptor as it was decoded
    prefix,              \* download_msgs: local prefix
    elem,                \* From<msg::elem::Elem>: the element given
    rq_elem              \* From<msg::elem::Elem>: the RQElem returned

engineVars == <<readers, writer, sync_cookie, pub_account_cookie>>
syncVars == <<sync_flag, msgs, resp, fetched, acked>>
uploadVars == <<session_key, hw_readers, is_long, rsp, addrs, transfers>>
apiVars == <<status, src_text_list, translations, awaited>>
sendVars == <<friend_seq, receipt_waiters, waiters_lock, seq, ran, registered>>
downloadVars == <<down_resp, descriptor, prefix>>
elemVars == <<elem, rq_elem>>
nonSyncVars == <<uploadVars, apiVars, sendVars, downloadVars, elemVars>>
nonUploadVars == <<sync_cookie, pub_account_cookie, syncVars, apiVars, sendVars,
                   downloadVars, elemVars>>
nonApiVars == <<writer, sync_cookie, pub_account_cookie, syncVars, failed,
                uploadVars, sendVars, downloadVars, elemVars>>
nonSendVars == <<writer, sync_cookie, pub_account_cookie, syncVars, failed,
                 uploadVars, apiVars, downloadVars, elemVars>>
nonDownloadVars == <<writer, sync_cookie, pub_account_cookie, syncVars, failed,
                     uploadVars, apiVars, sendVars, elemVars>>
clientVars == <<op, pc, readers, writer, sync_cookie, pub_account_cookie, sent,
                result, sync_flag, msgs, resp, fetched, acked, failed,
                uploadVars, apiVars, sendVars, downloadVars>>
vars == <<clientVars, elemVars>>

(***************************************************************************)
(* RQResult<T>: Ok(val) or Err(err).                                       *)
(***************************************************************************)
\* task t has returned from its call
Returned(t) == pc[t] = "done"

NoResult == [kind |-> "none", err |-> "", val |-> <<>>]
Ok(v) == [kind |-> "Ok", err |-> "", val |-> v]
Err(e) == [kind |-> "Err", err |-> e, val |-> <<>>]

\* The error a failed transport call or a failed decode propagates.
NetworkError == "network"
DecodeError == "decode"

(***************************************************************************)
(* Option<T>                                                               *)
(***************************************************************************)
None == [some |-> FALSE, v |-> 0 - 1]
Some(x) == [some |-> TRUE, v |-> x]

(***************************************************************************)
(* self.engine: tokio RwLock<Engine>.  The lock is fair: a task that has  *)
(* asked for the exclusive guard is queued, and no shared guard is given  *)
(* out until it has had and dropped it.  read() is granted while no task  *)
(* holds or waits for the exclusive guard; write() while no task holds    *)
(* any guard.                                                              *)
(***************************************************************************)
\* the tasks queued in self.engine.write().await
WriteQueued == { u \in Tasks : pc[u] = "engine_write" }

\* Faulty variant of EngineReadGranted: shared guards are given out past a
\* queued writer.
EngineReadGranted_barging(t) == writer = {} /\ t \notin readers

EngineReadGranted(t) == writer = {} /\ WriteQueued = {} /\ t \notin readers
EngineWriteGranted(t) == writer = {} /\ readers = {}

(***************************************************************************)
(* Transport: send_and_wait hands the request to the transport and        *)
(* suspends the caller; the request is recorded in sent[t].               *)
(***************************************************************************)
Request(cmd, arg) == [cmd |-> cmd, arg |-> arg]
send_and_wait(t, req) == sent' = [sent EXCEPT ![t] = Append(@, req)]

Requests(t, cmd) == SelectSeq(sent[t], LAMBDA r : r.cmd = cmd)

(***************************************************************************)
(* MessageSyncResponse: the decoded page of sync_message.  The k-th page  *)
(* carries up to MaxPageMsgs messages, numbered by page; heads is FALSE   *)
(* when some message of the page has no head.  The server's next flag is  *)
(* CONTINUE or STOP; an absent cookie is None.                            *)
(***************************************************************************)
RspTypes == 0 .. 3
MsgId(k, i) == k * (MaxPageMsgs + 1) + i
PageMsgs(k, n) == [i \in 1 .. n |-> MsgId(k, i)]
NoResp == [msgs |-> <<>>, heads |-> TRUE, msg_rsp_type |-> 0 - 1,
           sync_cookie |-> None, pub_account_cookie |-> None, sync_flag |-> 0 - 1]
PageHeads(n) == IF n = 0 THEN {TRUE} ELSE BOOLEAN
MessageSyncResponse(k) ==
    UNION { { [msgs |-> PageMsgs(k, n), heads |-> h, msg_rsp_type |-> ty,
               sync_cookie |-> sc, pub_account_cookie |-> pa, sync_flag |-> fl] :
                h \in PageHeads(n), ty \in RspTypes,
                sc \in {None, Some(k)}, pa \in {None, Some(k)},
                fl \in {SYNC_CONTINUE, SYNC_STOP} } :
            n \in 0 .. MaxPageMsgs }

(***************************************************************************)
(* pb::multimsg::MultiMsgApplyUpRsp: the resource id and the candidate    *)
(* addresses and ports, numbered in the order the server gives them.      *)
(***************************************************************************)
MaxAddrs == 3
Resids == {7, 8}
NoRsp == [msg_resid |-> 0, uint32_up_ip |-> <<>>, uint32_up_port |-> <<>>]
MultiMsgApplyUpRsp ==
    { [msg_resid |-> r,
       uint32_up_ip |-> [i \in 1 .. n |-> i],
       uint32_up_port |-> [i \in 1 .. m |-> 10 * i]] :
        r \in Resids, n \in 0 .. MaxAddrs, m \in 0 .. MaxAddrs }

(***************************************************************************)
(* Status.custom_status: Option<CustomStatus>.  The wording is a string:  *)
(* the sequence of its code points, each given by the number of bytes of  *)
(* its UTF-8 encoding (1 for an ASCII letter, 3 for a CJK character).     *)
(***************************************************************************)
MaxWording == 5
CodePoints == {1, 3}
Strings(n) == UNION { [1 .. k -> CodePoints] : k \in 0 .. n }
NoCustomStatus == [present |-> FALSE, wording |-> <<>>]
CustomStatus(w) == [present |-> TRUE, wording |-> w]
Statuses == {NoCustomStatus} \cup { CustomStatus(w) : w \in Strings(MaxWording) }

(***************************************************************************)
(* translate: the texts given and the translations decoded.               *)
(***************************************************************************)
MaxTexts == 3
Texts == { [i \in 1 .. n |-> i] : n \in 0 .. MaxTexts }
Translated == { [i \in 1 .. m |-> 10 * i] : m \in 0 .. MaxTexts }
NoTranslations == <<0>>

(***************************************************************************)
(* pb::multimsg::MultiMsgApplyDownRsp: the result code, the channel type  *)
(* of msg_extern_info (None when the field is absent) and the candidate   *)
(* addresses and ports, numbered in the order the server gives them.      *)
(***************************************************************************)
ResultCodes == {0, 1}
ChannelTypes == {1, 2}
NoDescriptor == [result |-> 0 - 1, msg_extern_info |-> None,
                 down_ip |-> <<>>, down_port |-> <<>>]
MultiMsgApplyDownRsp ==
    { [result |-> rc, msg_extern_info |-> ch,
       down_ip |-> [i \in 1 .. n |-> i],
       down_port |-> [i \in 1 .. m |-> 10 * i]] :
        rc \in ResultCodes,
        ch \in {None} \cup { Some(c) : c \in ChannelTypes },
        n \in 0 .. MaxAddrs, m \in 0 .. MaxAddrs }

\* prefix: the scheme and, for http, the address it is built from
NoPrefix == [scheme |-> "", ip |-> 0, port |-> 0]

(***************************************************************************)
(* msg::elem::Elem: the protocol elements.  An element has its kind, its  *)
(* payload `body` and, by kind: attr6_buf of a Text; service_type and     *)
(* pb_elem of a CommonElem; face_name of a MarketFace.  A string is the   *)
(* sequence of its code points.                                            *)
(***************************************************************************)
\* the kinds the match names
NamedKinds == {"Text", "Face", "CommonElem", "MarketFace", "LightApp", "RichMsg",
               "VideoFile", "NotOnlineImage", "CustomFace"}
\* kinds the match does not name
OtherKinds == {"OnlineImage", "TransElemInfo", "GroupFile", "AnonGroupMsg",
               "SrcMsg"}
Bodies == {<<1>>, <<1, 2>>}
ServiceTypes == {0, 2, 3, 4, 32, 33, 34}

\* "[骰子]", "[随机骰子]", "[猜拳]"
DICE == <<91, 39600, 23376, 93>>
RANDOM_DICE == <<91, 38543, 26426, 39600, 23376, 93>>
FINGER_GUESSING == <<91, 29468, 25331, 93>>
\* the three captions, and captions close to them: without the brackets,
\* with a trailing space, a prefix, another caption, the empty one
Captions == {DICE, RANDOM_DICE, FINGER_GUESSING,
             <<39600, 23376>>, <<91, 39600, 23376, 93, 32>>,
             <<91, 38543, 26426, 93>>, <<91, 29468, 93>>,
             <<91, 29468, 25331, 93, 93>>, <<91, 97, 93>>, <<>>}

\* pb_elem: the bytes, given by what the two decoders make of them.  d3 is
\* the outcome of MsgElemInfoServtype3::decode with its two optional
\* pictures, d33 that of MsgElemInfoServtype33::decode.
Servtype3s ==
    { [ok |-> ok, flash_troop_pic |-> tp, flash_c2c_pic |-> cp] :
        ok \in {TRUE}, tp \in {None, Some(1)}, cp \in {None, Some(2)} }
    \cup {[ok |-> FALSE, flash_troop_pic |-> None, flash_c2c_pic |-> None]}
Servtype33s == {[ok |-> TRUE, index |-> 5], [ok |-> FALSE, index |-> 0]}
PbElems == { [d3 |-> a, d33 |-> b] : a \in Servtype3s, b \in Servtype33s }
NoPbElem == [d3 |-> [ok |-> FALSE, flash_troop_pic |-> None, flash_c2c_pic |-> None],
             d33 |-> [ok |-> FALSE, index |-> 0]]

Elem(kind, body, attr6, st, pb, name) ==
    [kind |-> kind, body |-> body, attr6_buf |-> attr6, service_type |-> st,
     pb_elem |-> pb, face_name |-> name]
NoElem == Elem("", <<>>, <<>>, 0, NoPbElem, <<>>)
Elems ==
    { Elem("Text", b, a, 0, NoPbElem, <<>>) : b \in Bodies, a \in {<<>>, <<7>>} }
    \cup { Elem("CommonElem", <<1>>, <<>>, st, pb, <<>>) :
              st \in ServiceTypes, pb \in PbElems }
    \cup { Elem("MarketFace", <<1>>, <<>>, 0, NoPbElem, c) : c \in Captions }
    \cup { Elem(k, b, <<>>, 0, NoPbElem, <<>>) :
              k \in (NamedKinds \ {"Text", "CommonElem", "MarketFace"})
                      \cup OtherKinds,
              b \in Bodies }

\* RQElem: the variant and what it holds
RQElem(variant, inner) == [variant |-> variant, inner |-> inner]
NoRQElem == RQElem("", NoElem)
Variants == {"At", "Text", "Face", "MarketFace", "Dice", "FingerGuessing",
             "LightApp", "RichMsg", "FriendImage", "GroupImage", "FlashImage",
             "VideoFile", "Other"}

InitCommon ==
    /\ op = [t \in Tasks |-> "none"]
    /\ pc = [t \in Tasks |-> "idle"]
    /\ readers = {}
    /\ writer = {}
    /\ sync_cookie = 0
    /\ pub_account_cookie = 0
    /\ sent = [t \in Tasks |-> <<>>]
    /\ result = [t \in Tasks |-> NoResult]
    /\ sync_flag = [t \in Tasks |-> SYNC_START]
    /\ msgs = [t \in Tasks |-> <<>>]
    /\ resp = [t \in Tasks |-> NoResp]
    /\ fetched = [t \in Tasks |-> <<>>]
    /\ acked = [t \in Tasks |-> 0]
    /\ failed = [t \in Tasks |-> "none"]
    /\ hw_readers = {}
    /\ is_long = [t \in Tasks |-> FALSE]
    /\ rsp = [t \in Tasks |-> NoRsp]
    /\ addrs = [t \in Tasks |-> <<>>]
    /\ transfers = [t \in Tasks |-> <<>>]
    /\ status = [t \in Tasks |-> NoCustomStatus]
    /\ src_text_list = [t \in Tasks |-> <<>>]
    /\ translations = [t \in Tasks |-> NoTranslations]
    /\ awaited = [t \in Tasks |-> 0]
    /\ friend_seq = 0
    /\ receipt_waiters = [n \in {} |-> 0]
    /\ waiters_lock = {}
    /\ seq = [t \in Tasks |-> 0]
    /\ ran = [t \in Tasks |-> 0]
    /\ registered = [t \in Tasks |-> <<>>]
    /\ down_resp = [t \in Tasks |-> NoDescriptor]
    /\ descriptor = [t \in Tasks |-> NoDescriptor]
    /\ prefix = [t \in Tasks |-> NoPrefix]
    /\ rq_elem = NoRQElem

\* The highway session key is established outside these calls: it is empty
\* until then, and a call may find it either way.
SessionKeys == {<<>>, <<1>>}

Init == InitCommon /\ session_key \in SessionKeys /\ elem = NoElem

(***************************************************************************)
(* sync_all_message                                                        *)
(***************************************************************************)
\* let mut sync_flag = SYNC_START; let mut msgs = Vec::new();
sync_all_message(t) ==
    /\ pc[t] = "idle"
    /\ sync_flag' = [sync_flag EXCEPT ![t] = SYNC_START]
    /\ msgs' = [msgs EXCEPT ![t] = <<>>]
    /\ pc' = [pc EXCEPT ![t] = "sync_message"]
    /\ UNCHANGED <<engineVars, sent, result, resp, fetched, acked, failed>>
    /\ UNCHANGED nonSyncVars
    /\ op' = [op EXCEPT ![t] = "sync_all_message"]

\* sync_message: self.engine.read().await, at most MaxPages times.
sync_message_read(t) ==
    /\ pc[t] = "sync_message"
    /\ Len(Requests(t, "sync")) < MaxPages
    /\ EngineReadGranted(t)
    /\ readers' = readers \cup {t}
    /\ pc' = [pc EXCEPT ![t] = "sync_message_build"]
    /\ UNCHANGED <<writer, sync_cookie, pub_account_cookie, sent, result,
                   syncVars, failed>>
    /\ UNCHANGED nonSyncVars
    /\ UNCHANGED op

\* Faulty variant of sync_message_send: the guard is kept over the wait.
sync_message_send_holding(t) ==
    /\ pc[t] = "sync_message_build"
    /\ send_and_wait(t, Request("sync", <<sync_flag[t]>>))
    /\ pc' = [pc EXCEPT ![t] = "sync_message_wait"]
    /\ UNCHANGED <<engineVars, result, syncVars, failed>>
    /\ UNCHANGED nonSyncVars
    /\ UNCHANGED op

\* build_get_message_request_packet(sync_flag, time); the guard is dropped
\* and the request handed to send_and_wait.
sync_message_send(t) ==
    /\ pc[t] = "sync_message_build"
    /\ readers' = readers \ {t}
    /\ send_and_wait(t, Request("sync", <<sync_flag[t]>>))
    /\ pc' = [pc EXCEPT ![t] = "sync_message_wait"]
    /\ UNCHANGED <<writer, sync_cookie, pub_account_cookie, result, syncVars,
                   failed>>
    /\ UNCHANGED nonSyncVars
    /\ UNCHANGED op

\* Faulty variant of sync_message_failed: the failed page is requested again.
sync_message_failed_retry(t) ==
    /\ failed' = [failed EXCEPT ![t] = "fetch"]
    /\ pc' = [pc EXCEPT ![t] = "sync_message"]
    /\ UNCHANGED result

\* Err(_) => { warn!("failed to sync_message"); break } ... Ok(msgs)
sync_message_failed(t) ==
    /\ failed' = [failed EXCEPT ![t] = "fetch"]
    /\ result' = [result EXCEPT ![t] = Ok(msgs[t])]
    /\ pc' = [pc EXCEPT ![t] = "done"]

\* send_and_wait(req).await? of sync_message
sync_message_reply(t) ==
    /\ pc[t] = "sync_message_wait"
    /\ \/ /\ pc' = [pc EXCEPT ![t] = "sync_message_decode"]
          /\ UNCHANGED <<result, failed>>
       \/ sync_message_failed(t)
    /\ UNCHANGED <<engineVars, sent, syncVars>>
    /\ UNCHANGED nonSyncVars
    /\ UNCHANGED op

\* self.engine.read().await of the decode
sync_message_decode_read(t) ==
    /\ pc[t] = "sync_message_decode"
    /\ EngineReadGranted(t)
    /\ readers' = readers \cup {t}
    /\ pc' = [pc EXCEPT ![t] = "sync_message_decoding"]
    /\ UNCHANGED <<writer, sync_cookie, pub_account_cookie, sent, result,
                   syncVars, failed>>
    /\ UNCHANGED nonSyncVars
    /\ UNCHANGED op

\* decode_message_svc_packet(resp.body); on success the page is bound to resp
\* and the items of delete_message are built: m.head.as_ref().unwrap() panics
\* on a message without head.
sync_message_decoded(t) ==
    /\ pc[t] = "sync_message_decoding"
    /\ readers' = readers \ {t}
    /\ \/ /\ sync_message_failed(t)
          /\ UNCHANGED <<resp, fetched>>
       \/ \E page \in MessageSyncResponse(Len(Requests(t, "sync"))) :
            /\ resp' = [resp EXCEPT ![t] = page]
            /\ fetched' = [fetched EXCEPT ![t] = Append(@,
                    [msgs |-> page.msgs, sync_flag |-> page.sync_flag])]
            /\ pc' = [pc EXCEPT ![t] =
                        IF page.msgs # <<>> /\ ~page.heads
                        THEN "panicked" ELSE "delete_message"]
            /\ UNCHANGED <<result, failed>>
    /\ UNCHANGED <<writer, sync_cookie, pub_account_cookie, sent, sync_flag,
                   msgs, acked>>
    /\ UNCHANGED nonSyncVars
    /\ UNCHANGED op

(***************************************************************************)
(* delete_message, as called by sync_all_message with the items of resp.  *)
(***************************************************************************)
\* self.engine.read().await
delete_message_read(t) ==
    /\ pc[t] = "delete_message"
    /\ EngineReadGranted(t)
    /\ readers' = readers \cup {t}
    /\ pc' = [pc EXCEPT ![t] = "delete_message_build"]
    /\ UNCHANGED <<writer, sync_cookie, pub_account_cookie, sent, result,
                   syncVars, failed>>
    /\ UNCHANGED nonSyncVars
    /\ UNCHANGED op

\* Faulty variant of delete_message_send: the cursors are assigned when the
\* acknowledgment is sent.
delete_message_send_updating(t) ==
    /\ pc[t] = "delete_message_build"
    /\ readers' = readers \ {t}
    /\ send_and_wait(t, Request("delete", resp[t].msgs))
    /\ pc' = [pc EXCEPT ![t] = "delete_message_wait"]
    /\ sync_cookie' = IF resp[t].sync_cookie.some
                      THEN resp[t].sync_cookie.v ELSE sync_cookie
    /\ pub_account_cookie' = IF resp[t].pub_account_cookie.some
                             THEN resp[t].pub_account_cookie.v
                             ELSE pub_account_cookie
    /\ UNCHANGED <<writer, result, syncVars, failed>>
    /\ UNCHANGED nonSyncVars
    /\ UNCHANGED op

\* build_delete_message_request_packet(items); send_and_wait(req)
delete_message_send(t) ==
    /\ pc[t] = "delete_message_build"
    /\ readers' = readers \ {t}
    /\ send_and_wait(t, Request("delete", resp[t].msgs))
    /\ pc' = [pc EXCEPT ![t] = "delete_message_wait"]
    /\ UNCHANGED <<writer, sync_cookie, pub_account_cookie, result, syncVars,
                   failed>>
    /\ UNCHANGED nonSyncVars
    /\ UNCHANGED op

\* Faulty variant of delete_message_failed: the page is appended before the break.
delete_message_failed_appending(t) ==
    /\ failed' = [failed EXCEPT ![t] = "ack"]
    /\ msgs' = [msgs EXCEPT ![t] = @ \o resp[t].msgs]
    /\ result' = [result EXCEPT ![t] = Ok(msgs[t] \o resp[t].msgs)]
    /\ pc' = [pc EXCEPT ![t] = "done"]
    /\ UNCHANGED sync_flag

\* if let Err(err) = self.delete_message(..).await { warn!(..); break }
\* ... Ok(msgs)
delete_message_failed(t) ==
    /\ failed' = [failed EXCEPT ![t] = "ack"]
    /\ result' = [result EXCEPT ![t] = Ok(msgs[t])]
    /\ pc' = [pc EXCEPT ![t] = "done"]
    /\ UNCHANGED <<sync_flag, msgs>>

\* Faulty variant of extend: the page is put in front of the accumulated messages.
extend_front(ms, page) == page.msgs \o ms

\* msgs.extend(resp.msgs)
extend(ms, page) == ms \o page.msgs

\* Faulty variant of accept_page: the next flag of the page is not taken over.
accept_page_keeping_flag(t) ==
    /\ msgs' = [msgs EXCEPT ![t] = extend(@, resp[t])]
    /\ IF resp[t].sync_flag = SYNC_STOP
       THEN /\ result' = [result EXCEPT ![t] = Ok(extend(msgs[t], resp[t]))]
            /\ pc' = [pc EXCEPT ![t] = "done"]
       ELSE /\ pc' = [pc EXCEPT ![t] = "sync_message"]
            /\ UNCHANGED result
    /\ UNCHANGED <<sync_flag, failed>>

\* msgs.extend(resp.msgs); sync_flag = resp.sync_flag;
\* if sync_flag == SYNC_STOP { break } ... Ok(msgs)
accept_page(t) ==
    /\ msgs' = [msgs EXCEPT ![t] = extend(@, resp[t])]
    /\ sync_flag' = [sync_flag EXCEPT ![t] = resp[t].sync_flag]
    /\ IF resp[t].sync_flag = SYNC_STOP
       THEN /\ result' = [result EXCEPT ![t] = Ok(extend(msgs[t], resp[t]))]
            /\ pc' = [pc EXCEPT ![t] = "done"]
       ELSE /\ pc' = [pc EXCEPT ![t] = "sync_message"]
            /\ UNCHANGED result
    /\ UNCHANGED failed

\* match resp.msg_rsp_type: the arms 0, 1 and 2 take self.engine.write()
NeedsWrite(ty) == ty \in {0, 1, 2}

\* the acknowledgment returned: on success the match on msg_rsp_type is
\* entered; the arm _ => {} goes on to accept the page at once.
delete_message_reply(t) ==
    /\ pc[t] = "delete_message_wait"
    /\ \/ /\ delete_message_failed(t)
          /\ UNCHANGED acked
       \/ /\ acked' = [acked EXCEPT ![t] = @ + 1]
          /\ IF NeedsWrite(resp[t].msg_rsp_type)
             THEN /\ pc' = [pc EXCEPT ![t] = "engine_write"]
                  /\ UNCHANGED <<sync_flag, msgs, result, failed>>
             ELSE accept_page(t)
    /\ UNCHANGED <<engineVars, sent, resp, fetched>>
    /\ UNCHANGED nonSyncVars
    /\ UNCHANGED op

\* let mut engine = self.engine.write().await;
engine_write(t) ==
    /\ pc[t] = "engine_write"
    /\ EngineWriteGranted(t)
    /\ writer' = {t}
    /\ pc' = [pc EXCEPT ![t] = "engine_written"]
    /\ UNCHANGED <<readers, sync_cookie, pub_account_cookie, sent, result,
                   syncVars, failed>>
    /\ UNCHANGED nonSyncVars
    /\ UNCHANGED op

\* Faulty variant of new_sync_cookie: the sync cookie is taken in every arm.
new_sync_cookie_any_arm(page, old) ==
    IF page.sync_cookie.some THEN page.sync_cookie.v ELSE old

\* if let Some(sync_cookie) = resp.sync_cookie { sig.sync_cookie = .. }
\* in the arms 0 and 1
new_sync_cookie(page, old) ==
    IF page.msg_rsp_type \in {0, 1} /\ page.sync_cookie.some
    THEN page.sync_cookie.v ELSE old

\* Faulty variant of new_pub_account_cookie: an absent value is assigned too.
new_pub_account_cookie_clearing(page, old) ==
    IF page.msg_rsp_type \in {0, 2} THEN page.pub_account_cookie.v ELSE old

\* if let Some(pub_account_cookie) = resp.pub_account_cookie { .. }
\* in the arms 0 and 2
new_pub_account_cookie(page, old) ==
    IF page.msg_rsp_type \in {0, 2} /\ page.pub_account_cookie.some
    THEN page.pub_account_cookie.v ELSE old

\* the body of the arm under the exclusive guard; the guard is dropped at the
\* end of the arm and the page accepted.
update_cookies(t) ==
    /\ pc[t] = "engine_written"
    /\ sync_cookie' = new_sync_cookie(resp[t], sync_cookie)
    /\ pub_account_cookie' = new_pub_account_cookie(resp[t], pub_account_cookie)
    /\ writer' = {}
    /\ accept_page(t)
    /\ UNCHANGED <<readers, sent, resp, fetched, acked>>
    /\ UNCHANGED nonSyncVars
    /\ UNCHANGED op

\* the steps of sync_all_message
sync_step(t) ==
    \/ sync_all_message(t)
    \/ sync_message_read(t)
    \/ sync_message_send(t)
    \/ sync_message_reply(t)
    \/ sync_message_decode_read(t)
    \/ sync_message_decoded(t)
    \/ delete_message_read(t)
    \/ delete_message_send(t)
    \/ delete_message_reply(t)
    \/ engine_write(t)
    \/ update_cookies(t)

SyncNext == \E t \in {1} : sync_step(t)

SyncSpec == Init /\ [][SyncNext]_vars

\* The tasks are polled by the runtime until they return: a step that stays
\* enabled is eventually taken.
SyncFairSpec == SyncSpec /\ WF_vars(SyncNext)

(***************************************************************************)
(* Properties of sync_all_message                                          *)
(***************************************************************************)

RECURSIVE Concat(_, _)
\* the messages of the first n pages of ps, in fetch order
Concat(ps, n) == IF n = 0 THEN <<>> ELSE Concat(ps, n - 1) \o ps[n].msgs

\* the page a message belongs to
PageOf(id) == id \div (MaxPageMsgs + 1)


\* C1: when the k-th page request (transport send or response decode) fails,
\* the call returns Ok with exactly the messages of the pages 1..k-1, in
\* fetch order, all of which were acknowledged, and nothing of page k.
C1_FetchFailureReturnsAckedPages ==
    \A t \in Tasks :
        (Returned(t) /\ failed[t] = "fetch") =>
            LET k == Len(Requests(t, "sync")) IN
            /\ Len(fetched[t]) = k - 1
            /\ acked[t] = k - 1
            /\ Len(Requests(t, "delete")) = k - 1
            /\ result[t] = Ok(Concat(fetched[t], k - 1))
            /\ \A i \in 1 .. Len(result[t].val) : PageOf(result[t].val[i]) < k

\* two pages with messages were accepted and the third request failed
C1_Witness ==
    /\ Returned(1) /\ failed[1] = "fetch"
    /\ Len(Requests(1, "sync")) = 3
    /\ Len(result[1].val) = 2

\* C2: when the acknowledgment of a fetched page fails the loop stops and the
\* result holds the messages of the pages acknowledged before it; in every
\* state the accumulated messages belong to acknowledged pages only.
C2_UnackedPageExcluded ==
    \A t \in Tasks :
        /\ \A i \in 1 .. Len(msgs[t]) : PageOf(msgs[t][i]) <= acked[t]
        /\ (Returned(t) /\ failed[t] = "ack") =>
              /\ acked[t] = Len(fetched[t]) - 1
              /\ result[t] = Ok(Concat(fetched[t], acked[t]))
              /\ \A i \in 1 .. Len(result[t].val) :
                    PageOf(result[t].val[i]) # Len(fetched[t])

\* the acknowledgment of a second page that carries a message failed
C2_Witness ==
    /\ Returned(1) /\ failed[1] = "ack"
    /\ Len(fetched[1]) = 2
    /\ fetched[1][2].msgs # <<>>
    /\ Len(result[1].val) = 1

\* the positions of a call whose page request is in flight
Fetching == {"sync_message_wait", "sync_message_decode", "sync_message_decoding"}

\* C3: the call never returns an error; after the first failed page fetch or
\* failed acknowledgment it has returned, it sends no further request, and
\* every page request but the failed one produced a page.
C3_NoErrorNoRetry ==
    /\ [](\A t \in Tasks :
            /\ result[t].kind # "Err"
            /\ Returned(t) => result[t].kind = "Ok"
            /\ failed[t] # "none" => Returned(t)
            /\ Len(Requests(t, "sync")) =
                 Len(fetched[t]) + (IF failed[t] = "fetch" THEN 1 ELSE 0)
                   + (IF pc[t] \in Fetching THEN 1 ELSE 0))
    /\ [][\A t \in Tasks : failed[t] # "none" => sent'[t] = sent[t]]_vars

\* a call that returned after a failed request on its second page
C3_Witness ==
    /\ Returned(1) /\ failed[1] = "fetch"
    /\ Len(Requests(1, "sync")) = 2
    /\ result[1].kind = "Ok"

\* the step of task t that accepts the acknowledged page resp[t]
Accepts(t) ==
    /\ pc[t] \in {"delete_message_wait", "engine_written"}
    /\ pc'[t] \in {"sync_message", "done"}
    /\ failed'[t] = "none"

\* C6 as stated: each acknowledged page applies exactly one of the three
\* shapes: both cursors set to the page's values (tag 0), the sync cursor
\* alone (tag 1), the public-account cursor alone (tag 2).
C6_ExactlyOneShape ==
    [][\A t \in Tasks : Accepts(t) =>
        LET p == resp[t] IN
        \/ /\ p.msg_rsp_type = 0
           /\ sync_cookie' = p.sync_cookie.v
           /\ pub_account_cookie' = p.pub_account_cookie.v
        \/ /\ p.msg_rsp_type = 1
           /\ sync_cookie' = p.sync_cookie.v
           /\ pub_account_cookie' = pub_account_cookie
        \/ /\ p.msg_rsp_type = 2
           /\ pub_account_cookie' = p.pub_account_cookie.v
           /\ sync_cookie' = sync_cookie]_vars

\* a cursor after a page that may set it: the page's value if it carries one
Taken(opt, old) == IF opt.some THEN opt.v ELSE old

\* C6 amended: tag 0 sets both cursors, tag 1 the sync cursor alone, tag 2
\* the public-account cursor alone, each to the page's value when the page
\* carries one and otherwise not at all; any other tag changes no cursor.
C6_ShapeByTag ==
    [][\A t \in Tasks : Accepts(t) =>
        LET p == resp[t] IN
        /\ sync_cookie' =
             IF p.msg_rsp_type \in {0, 1}
             THEN Taken(p.sync_cookie, sync_cookie) ELSE sync_cookie
        /\ pub_account_cookie' =
             IF p.msg_rsp_type \in {0, 2}
             THEN Taken(p.pub_account_cookie, pub_account_cookie)
             ELSE pub_account_cookie]_vars

\* page 1 set the sync cursor alone and page 2 the public-account cursor alone
C6_Witness ==
    /\ Returned(1)
    /\ sync_cookie = 1
    /\ pub_account_cookie = 2

\* an acknowledged page of task t carries the next flag STOP
StopAcked(t) ==
    \E i \in 1 .. acked[t] : fetched[t][i].sync_flag = SYNC_STOP

\* C7: the first page request carries START and each later one the next flag
\* of the page before it; once an acknowledged page carries STOP it is the
\* last page requested, only the cursor update is left to do, which the call
\* can always do, and the call returns with the messages of that page.
C7_FlagsAndStop ==
    \A t \in Tasks :
        LET rs == Requests(t, "sync") IN
        /\ \A i \in 1 .. Len(rs) :
              rs[i].arg = <<IF i = 1 THEN SYNC_START
                            ELSE fetched[t][i - 1].sync_flag>>
        /\ StopAcked(t) =>
              /\ fetched[t][Len(fetched[t])].sync_flag = SYNC_STOP
              /\ acked[t] = Len(fetched[t])
              /\ Len(rs) = Len(fetched[t])
              /\ pc[t] \in {"engine_write", "engine_written", "done"}
              /\ Returned(t) \/ ENABLED sync_step(t)
              /\ Returned(t) =>
                    result[t] = Ok(Concat(fetched[t], Len(fetched[t])))

\* C7, termination: under the fair specification a call whose acknowledged
\* page carries STOP returns.
C7_StopLeadsToReturn == \A t \in {1} : StopAcked(t) ~> Returned(t)

\* the third page carried STOP and a message, and the call returned it
C7_Witness ==
    /\ Returned(1) /\ StopAcked(1)
    /\ Len(Requests(1, "sync")) = 3
    /\ fetched[1][3].msgs # <<>>
    /\ result[1].val # <<>>

(***************************************************************************)
(* upload_msgs                                                             *)
(***************************************************************************)
EmptyField(what) == "EmptyField: " \o what
Other(what) == "Other: " \o what

\* upload_msgs(group_code, msgs, is_long): self.engine.read().await
upload_msgs(t) ==
    /\ pc[t] = "idle"
    /\ EngineReadGranted(t)
    /\ readers' = readers \cup {t}
    /\ \E b \in BOOLEAN : is_long' = [is_long EXCEPT ![t] = b]
    /\ pc' = [pc EXCEPT ![t] = "validation_data"]
    /\ UNCHANGED <<writer, sent, result, failed, session_key, hw_readers, rsp,
                   addrs, transfers, nonUploadVars>>
    /\ op' = [op EXCEPT ![t] = "upload_msgs"]

\* calculate_validation_data(msgs, group_code); the guard is dropped and
\* multi_msg_apply_up is called.
calculate_validation_data(t) ==
    /\ pc[t] = "validation_data"
    /\ readers' = readers \ {t}
    /\ pc' = [pc EXCEPT ![t] = "apply_up"]
    /\ UNCHANGED <<writer, sent, result, failed, uploadVars, nonUploadVars>>
    /\ UNCHANGED op

\* multi_msg_apply_up: self.engine.read().await
multi_msg_apply_up_read(t) ==
    /\ pc[t] = "apply_up"
    /\ EngineReadGranted(t)
    /\ readers' = readers \cup {t}
    /\ pc' = [pc EXCEPT ![t] = "apply_up_build"]
    /\ UNCHANGED <<writer, sent, result, failed, uploadVars, nonUploadVars>>
    /\ UNCHANGED op

\* build_multi_msg_apply_up_req(len, md5, if is_long { 1 } else { 2 }, dst_uin);
\* send_and_wait(req)
multi_msg_apply_up_send(t) ==
    /\ pc[t] = "apply_up_build"
    /\ readers' = readers \ {t}
    /\ send_and_wait(t, Request("apply_up", <<IF is_long[t] THEN 1 ELSE 2>>))
    /\ pc' = [pc EXCEPT ![t] = "apply_up_wait"]
    /\ UNCHANGED <<writer, result, failed, uploadVars, nonUploadVars>>
    /\ UNCHANGED op

\* a `?` of the call: the error is returned
returns_err(t, e) ==
    /\ result' = [result EXCEPT ![t] = Err(e)]
    /\ pc' = [pc EXCEPT ![t] = "done"]

\* send_and_wait(req).await? of multi_msg_apply_up, and the `?` of upload_msgs
multi_msg_apply_up_reply(t) ==
    /\ pc[t] = "apply_up_wait"
    /\ \/ /\ pc' = [pc EXCEPT ![t] = "apply_up_decode"]
          /\ UNCHANGED result
       \/ returns_err(t, NetworkError)
    /\ UNCHANGED <<readers, writer, sent, failed, uploadVars, nonUploadVars>>
    /\ UNCHANGED op

\* self.engine.read().await of the decode
multi_msg_apply_up_decode_read(t) ==
    /\ pc[t] = "apply_up_decode"
    /\ EngineReadGranted(t)
    /\ readers' = readers \cup {t}
    /\ pc' = [pc EXCEPT ![t] = "apply_up_decoding"]
    /\ UNCHANGED <<writer, sent, result, failed, uploadVars, nonUploadVars>>
    /\ UNCHANGED op

\* decode_multi_msg_apply_up_resp(resp.body), and the `?` of upload_msgs;
\* on success rsp is bound.
multi_msg_apply_up_decoded(t) ==
    /\ pc[t] = "apply_up_decoding"
    /\ readers' = readers \ {t}
    /\ \/ /\ returns_err(t, DecodeError)
          /\ UNCHANGED rsp
       \/ \E r \in MultiMsgApplyUpRsp :
            /\ rsp' = [rsp EXCEPT ![t] = r]
            /\ pc' = [pc EXCEPT ![t] = "highway_session"]
            /\ UNCHANGED result
    /\ UNCHANGED <<writer, sent, failed, session_key, hw_readers, is_long,
                   addrs, transfers, nonUploadVars>>
    /\ UNCHANGED op

\* self.highway_session.read().await
highway_session_read(t) ==
    /\ pc[t] = "highway_session"
    /\ hw_readers' = hw_readers \cup {t}
    /\ pc' = [pc EXCEPT ![t] = "highway_session_key"]
    /\ UNCHANGED <<readers, writer, sent, result, failed, session_key, is_long,
                   rsp, addrs, transfers, nonUploadVars>>
    /\ UNCHANGED op

\* Faulty variant of is_empty: the session key is taken to be set.
is_empty_never(key) == FALSE

\* session_key.is_empty()
is_empty(key) == Len(key) = 0

RECURSIVE zip_reversed(_, _)
RECURSIVE zip(_, _)
\* Faulty variant of zip: the candidates are taken in the reverse order.
zip_reversed(ips, ports) ==
    IF ips = <<>> \/ ports = <<>> THEN <<>>
    ELSE zip_reversed(Tail(ips), Tail(ports)) \o <<<<Head(ips), Head(ports)>>>>

\* rsp.uint32_up_ip.into_iter().zip(rsp.uint32_up_port.into_iter())
\*     .map(|(ip, port)| RQAddr(ip as u32, port as u16)).collect()
zip(ips, ports) ==
    IF ips = <<>> \/ ports = <<>> THEN <<>>
    ELSE <<<<Head(ips), Head(ports)>>>> \o zip(Tail(ips), Tail(ports))

\* if self.highway_session.read().await.session_key.is_empty() { return Err }
\* let addrs = ..
session_key_checked(t) ==
    /\ pc[t] = "highway_session_key"
    /\ hw_readers' = hw_readers \ {t}
    /\ IF is_empty(session_key)
       THEN /\ returns_err(t, EmptyField("highway_session_key is empty"))
            /\ UNCHANGED addrs
       ELSE /\ addrs' = [addrs EXCEPT ![t] =
                           zip(rsp[t].uint32_up_ip, rsp[t].uint32_up_port)]
            /\ pc' = [pc EXCEPT ![t] = "long_req"]
            /\ UNCHANGED result
    /\ UNCHANGED <<readers, writer, sent, failed, session_key, is_long, rsp,
                   transfers, nonUploadVars>>
    /\ UNCHANGED op

\* self.engine.read().await of build_long_req
build_long_req_read(t) ==
    /\ pc[t] = "long_req"
    /\ EngineReadGranted(t)
    /\ readers' = readers \cup {t}
    /\ pc' = [pc EXCEPT ![t] = "long_req_build"]
    /\ UNCHANGED <<writer, sent, result, failed, uploadVars, nonUploadVars>>
    /\ UNCHANGED op

\* Faulty variant of for_addr: the loop gives up with candidates left.
for_addr_first_only(t, left) ==
    /\ addrs' = [addrs EXCEPT ![t] = left]
    /\ IF left = <<>> \/ transfers[t] # <<>>
       THEN /\ returns_err(t, Other("failed to upload long message"))
            /\ UNCHANGED sent
       ELSE /\ send_and_wait(t, Request("bdh", Head(left)))
            /\ pc' = [pc EXCEPT ![t] = "highway_upload_bdh"]
            /\ UNCHANGED result

\* for addr in addrs { match self.highway_upload_bdh(addr.into(), ..).await ..}
\* Err(RQError::Other("failed to upload long message".into()))
\* with the candidates `left`: the next one is tried, or the loop is over.
for_addr(t, left) ==
    /\ addrs' = [addrs EXCEPT ![t] = left]
    /\ IF left = <<>>
       THEN /\ returns_err(t, Other("failed to upload long message"))
            /\ UNCHANGED sent
       ELSE /\ send_and_wait(t, Request("bdh", Head(left)))
            /\ pc' = [pc EXCEPT ![t] = "highway_upload_bdh"]
            /\ UNCHANGED result

\* build_long_req(..); the guard is dropped and the loop entered.
build_long_req(t) ==
    /\ pc[t] = "long_req_build"
    /\ readers' = readers \ {t}
    /\ for_addr(t, addrs[t])
    /\ UNCHANGED <<writer, failed, session_key, hw_readers, is_long, rsp,
                   transfers, nonUploadVars>>
    /\ UNCHANGED op

\* the transfer ended: Ok(_) => return Ok(resid), Err(_) => continue
highway_upload_bdh(t) ==
    /\ pc[t] = "highway_upload_bdh"
    /\ \E ok \in BOOLEAN :
        /\ transfers' = [transfers EXCEPT ![t] = Append(@, ok)]
        /\ IF ok
           THEN /\ result' = [result EXCEPT ![t] = Ok(<<rsp[t].msg_resid>>)]
                /\ pc' = [pc EXCEPT ![t] = "done"]
                /\ UNCHANGED <<sent, addrs>>
           ELSE for_addr(t, Tail(addrs[t]))
    /\ UNCHANGED <<readers, writer, failed, session_key, hw_readers, is_long,
                   rsp, nonUploadVars>>
    /\ UNCHANGED op

\* the steps of upload_msgs
upload_step(t) ==
    \/ upload_msgs(t)
    \/ calculate_validation_data(t)
    \/ multi_msg_apply_up_read(t)
    \/ multi_msg_apply_up_send(t)
    \/ multi_msg_apply_up_reply(t)
    \/ multi_msg_apply_up_decode_read(t)
    \/ multi_msg_apply_up_decoded(t)
    \/ highway_session_read(t)
    \/ session_key_checked(t)
    \/ build_long_req_read(t)
    \/ build_long_req(t)
    \/ highway_upload_bdh(t)

UploadNext == \E t \in {1} : upload_step(t)

UploadSpec == Init /\ [][UploadNext]_vars

(***************************************************************************)
(* Properties of upload_msgs                                               *)
(***************************************************************************)

\* the ticket request of task t was answered and decoded
HasTicket(t) == rsp[t] # NoRsp

\* C4 as stated: a call made while the highway session key is empty fails
\* with the missing-field error and has handed nothing to the network, neither
\* the upload-ticket request nor a highway transfer.
C4_NoNetworkCallWithEmptyKey ==
    \A t \in Tasks :
        session_key = <<>> =>
            /\ sent[t] = <<>>
            /\ Returned(t) =>
                  result[t] = Err(EmptyField("highway_session_key is empty"))

\* C4 amended: a call made while the highway session key is empty attempts
\* no highway transfer and fails; it has sent the upload-ticket request
\* before the key is looked at, and fails with the missing-field error when
\* that request was answered and decoded, and with its error otherwise.
C4_NoTransferWithEmptyKey ==
    \A t \in Tasks :
        session_key = <<>> =>
            /\ Requests(t, "bdh") = <<>>
            /\ transfers[t] = <<>>
            /\ Returned(t) =>
                  /\ Len(Requests(t, "apply_up")) = 1
                  /\ result[t].kind = "Err"
                  /\ HasTicket(t) =>
                        result[t] =
                            Err(EmptyField("highway_session_key is empty"))
                  /\ ~HasTicket(t) =>
                        result[t].err \in {NetworkError, DecodeError}

\* the key is empty, the ticket named candidates, and the call failed on the key
C4_Witness ==
    /\ session_key = <<>>
    /\ Returned(1)
    /\ HasTicket(1)
    /\ Len(rsp[1].uint32_up_ip) >= 2
    /\ Len(rsp[1].uint32_up_port) >= 2
    /\ result[1] = Err(EmptyField("highway_session_key is empty"))

\* the candidates of a ticket: the addresses paired with the ports, in the
\* order of the response, as many as both lists have
Candidates(r) ==
    [i \in 1 .. (IF Len(r.uint32_up_ip) <= Len(r.uint32_up_port)
                 THEN Len(r.uint32_up_ip) ELSE Len(r.uint32_up_port)) |->
        <<r.uint32_up_ip[i], r.uint32_up_port[i]>>]

\* C5: with a session key and a ticket, the transfers attempted are the first
\* candidates in the server's order, each once and one at a time; every
\* attempt but the last failed; the call returns the resource id exactly when
\* the last attempt succeeded, and the transfer-failure error exactly when all
\* candidates (possibly none) were attempted and failed.
C5_EndpointsInOrder ==
    \A t \in Tasks :
        (session_key # <<>> /\ HasTicket(t)) =>
            LET att == Requests(t, "bdh")
                cands == Candidates(rsp[t])
                n == Len(transfers[t])
            IN
            /\ Len(att) <= Len(cands)
            /\ \A i \in 1 .. Len(att) : att[i].arg = cands[i]
            /\ Len(att) \in {n, n + 1}
            /\ \A i \in 1 .. n - 1 : ~transfers[t][i]
            /\ Returned(t) =>
                  /\ Len(att) = n
                  /\ \/ /\ n > 0 /\ transfers[t][n]
                        /\ result[t] = Ok(<<rsp[t].msg_resid>>)
                     \/ /\ n = Len(cands)
                        /\ \A i \in 1 .. n : ~transfers[t][i]
                        /\ result[t] =
                              Err(Other("failed to upload long message"))

\* of three candidates the first two failed and the third succeeded
C5_Witness ==
    /\ session_key # <<>>
    /\ Returned(1)
    /\ Len(Candidates(rsp[1])) = 3
    /\ transfers[1] = <<FALSE, FALSE, TRUE>>
    /\ result[1].kind = "Ok"

(***************************************************************************)
(* update_online_status                                                    *)
(***************************************************************************)
RECURSIVE len(_)
\* str::len: the number of bytes of the string
len(w) == IF w = <<>> THEN 0 ELSE Head(w) + len(Tail(w))

\* Faulty variant of chars_count: the bytes are counted.
chars_count_bytes(w) == len(w)

\* wording.chars().count(): the number of code points of the string
chars_count(w) == Len(w)

\* custom_status.wording.is_empty() || custom_status.wording.chars().count() > 4
invalid_wording(w) == len(w) = 0 \/ chars_count(w) > 4

\* update_online_status(status): the wording is checked and, if it is valid
\* or there is none, self.engine.read() is awaited.
update_online_status(t) ==
    /\ pc[t] = "idle"
    /\ \E st \in Statuses :
        /\ status' = [status EXCEPT ![t] = st]
        /\ IF st.present /\ invalid_wording(st.wording)
           THEN returns_err(t, Other("invalid wording length"))
           ELSE /\ pc' = [pc EXCEPT ![t] = "online_status"]
                /\ UNCHANGED result
    /\ UNCHANGED <<readers, sent, src_text_list, translations, awaited,
                   nonApiVars>>
    /\ op' = [op EXCEPT ![t] = "update_online_status"]

\* self.engine.read().await
update_online_status_read(t) ==
    /\ pc[t] = "online_status"
    /\ EngineReadGranted(t)
    /\ readers' = readers \cup {t}
    /\ pc' = [pc EXCEPT ![t] = "online_status_build"]
    /\ UNCHANGED <<sent, result, apiVars, nonApiVars>>
    /\ UNCHANGED op

\* build_set_online_status_packet(..); send_and_wait(req)
update_online_status_send(t) ==
    /\ pc[t] = "online_status_build"
    /\ readers' = readers \ {t}
    /\ send_and_wait(t, Request("online_status", status[t].wording))
    /\ pc' = [pc EXCEPT ![t] = "online_status_wait"]
    /\ UNCHANGED <<result, apiVars, nonApiVars>>
    /\ UNCHANGED op

\* let _ = self.send_and_wait(req).await?; Ok(())
update_online_status_reply(t) ==
    /\ pc[t] = "online_status_wait"
    /\ \/ /\ awaited' = [awaited EXCEPT ![t] = @ + 1]
          /\ result' = [result EXCEPT ![t] = Ok(<<>>)]
          /\ pc' = [pc EXCEPT ![t] = "done"]
       \/ /\ returns_err(t, NetworkError)
          /\ UNCHANGED awaited
    /\ UNCHANGED <<readers, sent, status, src_text_list, translations,
                   nonApiVars>>
    /\ UNCHANGED op

(***************************************************************************)
(* translate                                                               *)
(***************************************************************************)
\* translate(src_language, dst_language, src_text_list):
\* self.engine.read().await
translate(t) ==
    /\ pc[t] = "idle"
    /\ EngineReadGranted(t)
    /\ readers' = readers \cup {t}
    /\ \E l \in Texts : src_text_list' = [src_text_list EXCEPT ![t] = l]
    /\ pc' = [pc EXCEPT ![t] = "translate_build"]
    /\ UNCHANGED <<sent, result, status, translations, awaited, nonApiVars>>
    /\ op' = [op EXCEPT ![t] = "translate"]

\* build_translate_request_packet(.., src_text_list.clone()); send_and_wait(req)
translate_send(t) ==
    /\ pc[t] = "translate_build"
    /\ readers' = readers \ {t}
    /\ send_and_wait(t, Request("translate", src_text_list[t]))
    /\ pc' = [pc EXCEPT ![t] = "translate_wait"]
    /\ UNCHANGED <<result, apiVars, nonApiVars>>
    /\ UNCHANGED op

\* let resp = self.send_and_wait(req).await?;
translate_reply(t) ==
    /\ pc[t] = "translate_wait"
    /\ \/ /\ awaited' = [awaited EXCEPT ![t] = @ + 1]
          /\ pc' = [pc EXCEPT ![t] = "translate_decode"]
          /\ UNCHANGED result
       \/ /\ returns_err(t, NetworkError)
          /\ UNCHANGED awaited
    /\ UNCHANGED <<readers, sent, status, src_text_list, translations,
                   nonApiVars>>
    /\ UNCHANGED op

\* self.engine.read().await of the decode
translate_decode_read(t) ==
    /\ pc[t] = "translate_decode"
    /\ EngineReadGranted(t)
    /\ readers' = readers \cup {t}
    /\ pc' = [pc EXCEPT ![t] = "translate_decoding"]
    /\ UNCHANGED <<sent, result, apiVars, nonApiVars>>
    /\ UNCHANGED op

\* Faulty variant of length_error: only a response that is too short is refused.
length_error_short(trans, src) == Len(trans) < Len(src)

\* translations.len() != src_text_list.len()
length_error(trans, src) == Len(trans) # Len(src)

\* decode_translate_response(resp.body)?; the lengths are compared and
\* Ok(translations) returned.
translate_decoded(t) ==
    /\ pc[t] = "translate_decoding"
    /\ readers' = readers \ {t}
    /\ \/ /\ returns_err(t, DecodeError)
          /\ UNCHANGED translations
       \/ \E trans \in Translated :
            /\ translations' = [translations EXCEPT ![t] = trans]
            /\ IF length_error(trans, src_text_list[t])
               THEN returns_err(t, Other("translate length error"))
               ELSE /\ result' = [result EXCEPT ![t] = Ok(trans)]
                    /\ pc' = [pc EXCEPT ![t] = "done"]
    /\ UNCHANGED <<sent, status, src_text_list, awaited, nonApiVars>>
    /\ UNCHANGED op

\* the steps of update_online_status and of translate
api_step(t) ==
    \/ update_online_status(t)
    \/ update_online_status_read(t)
    \/ update_online_status_send(t)
    \/ update_online_status_reply(t)
    \/ translate(t)
    \/ translate_send(t)
    \/ translate_reply(t)
    \/ translate_decode_read(t)
    \/ translate_decoded(t)

ApiNext == \E t \in {1} : api_step(t)

ApiSpec == Init /\ [][ApiNext]_vars

(***************************************************************************)
(* Properties of update_online_status and translate                        *)
(***************************************************************************)

\* C8: a custom status whose wording has no code point or at least five
\* makes update_online_status fail with "invalid wording length" at once,
\* no guard taken and nothing sent; with one to four code points, or without
\* custom status, the call returns only after the status packet was sent,
\* with Ok when the acknowledgment came and the transport's error otherwise.
C8_WordingValidated ==
    \A t \in Tasks :
        op[t] = "update_online_status" =>
            LET w == status[t].wording IN
            IF status[t].present /\ (Len(w) = 0 \/ Len(w) >= 5)
            THEN /\ Returned(t)
                 /\ result[t] = Err(Other("invalid wording length"))
                 /\ sent[t] = <<>>
                 /\ t \notin readers
            ELSE Returned(t) =>
                 /\ sent[t] = <<Request("online_status", w)>>
                 /\ \/ awaited[t] = 1 /\ result[t] = Ok(<<>>)
                    \/ awaited[t] = 0 /\ result[t] = Err(NetworkError)

\* a wording of four code points and twelve bytes was accepted
C8_Witness ==
    /\ op[1] = "update_online_status"
    /\ status[1] = CustomStatus(<<3, 3, 3, 3>>)
    /\ Returned(1)
    /\ result[1] = Ok(<<>>)

\* C9: translate returns Ok only with as many translations as texts, and
\* then the decoded list itself; a decoded response of another length makes
\* it fail with "translate length error".
C9_TranslateLengths ==
    \A t \in Tasks :
        (op[t] = "translate" /\ Returned(t)) =>
            /\ result[t].kind = "Ok" =>
                  /\ translations[t] # NoTranslations
                  /\ Len(translations[t]) = Len(src_text_list[t])
            /\ translations[t] # NoTranslations =>
                  IF Len(translations[t]) = Len(src_text_list[t])
                  THEN result[t] = Ok(translations[t])
                  ELSE result[t] = Err(Other("translate length error"))

\* three texts were sent and two translations came back
C9_Witness ==
    /\ op[1] = "translate"
    /\ Returned(1)
    /\ Len(src_text_list[1]) = 3
    /\ Len(translations[1]) = 2
    /\ translations[1] # NoTranslations
    /\ result[1].kind = "Err"

(***************************************************************************)
(* send_message                                                            *)
(***************************************************************************)
\* A u32 is the pair <<hi, lo>> of its 16-bit halves, hi * 2^16 + lo.
\* The values rand::random::<u32>() is drawn from: 0, 1, 2^16, 2^31 - 1, 2^31
\* and 2^32 - 1.
RandomU32 == {<<0, 0>>, <<0, 1>>, <<1, 0>>, <<2 ^ 15 - 1, 2 ^ 16 - 1>>,
              <<2 ^ 15, 0>>, <<2 ^ 16 - 1, 2 ^ 16 - 1>>}

\* x >> 1, for a u32 x
shr1(x) == <<x[1] \div 2, (x[1] % 2) * 2 ^ 15 + x[2] \div 2>>

\* x as i32, for a u32 x: the value of the same 32 bits in two's complement
as_i32(x) ==
    IF x[1] >= 2 ^ 15 THEN (x[1] - 2 ^ 16) * 2 ^ 16 + x[2]
    ELSE x[1] * 2 ^ 16 + x[2]

\* Faulty variant of nonce: the random value is cast without the shift.
nonce_unshifted(r) == as_i32(r)

\* (rand::random::<u32>() >> 1) as i32
nonce(r) == as_i32(shr1(r))

\* Engine::next_friend_seq: the next outgoing sequence number
NextFriendSeq(cur) == cur + 1

\* send_message(routing_head, message_chain, ptt): self.engine.read().await
send_message(t) ==
    /\ pc[t] = "idle"
    /\ EngineReadGranted(t)
    /\ readers' = readers \cup {t}
    /\ pc' = [pc EXCEPT ![t] = "next_friend_seq"]
    /\ op' = [op EXCEPT ![t] = "send_message"]
    /\ UNCHANGED <<sent, result, sendVars, nonSendVars>>

\* Faulty variant of next_friend_seq: the shared guard of the engine is kept
\* while the registry is locked.
next_friend_seq_holding(t) ==
    /\ pc[t] = "next_friend_seq"
    /\ seq' = [seq EXCEPT ![t] = friend_seq]
    /\ friend_seq' = NextFriendSeq(friend_seq)
    /\ \E r \in RandomU32 : ran' = [ran EXCEPT ![t] = nonce(r)]
    /\ pc' = [pc EXCEPT ![t] = "receipt_waiters"]
    /\ UNCHANGED <<op, readers, sent, result, receipt_waiters, waiters_lock,
                   registered, nonSendVars>>

\* let seq = ..next_friend_seq(); the guard is dropped;
\* let ran = (rand::random::<u32>() >> 1) as i32;
next_friend_seq(t) ==
    /\ pc[t] = "next_friend_seq"
    /\ seq' = [seq EXCEPT ![t] = friend_seq]
    /\ friend_seq' = NextFriendSeq(friend_seq)
    /\ readers' = readers \ {t}
    /\ \E r \in RandomU32 : ran' = [ran EXCEPT ![t] = nonce(r)]
    /\ pc' = [pc EXCEPT ![t] = "receipt_waiters"]
    /\ UNCHANGED <<op, sent, result, receipt_waiters, waiters_lock, registered,
                   nonSendVars>>

\* self.receipt_waiters.lock().await
receipt_waiters_lock(t) ==
    /\ pc[t] = "receipt_waiters"
    /\ waiters_lock = {}
    /\ waiters_lock' = {t}
    /\ pc' = [pc EXCEPT ![t] = "cache_set"]
    /\ UNCHANGED <<op, readers, sent, result, friend_seq, receipt_waiters, seq,
                   ran, registered, nonSendVars>>

\* Faulty variant of cache_set: the block is left without the entry being put in.
cache_set_nothing(t) ==
    /\ pc[t] = "cache_set"
    /\ waiters_lock' = {}
    /\ pc' = [pc EXCEPT ![t] = "send_message_packet"]
    /\ UNCHANGED <<op, readers, sent, result, friend_seq, receipt_waiters, seq,
                   ran, registered, nonSendVars>>

\* .cache_set(ran, tx); the mutex is released at the end of the block.
cache_set(t) ==
    /\ pc[t] = "cache_set"
    /\ receipt_waiters' =
         [n \in DOMAIN receipt_waiters \cup {ran[t]} |->
            IF n = ran[t] THEN t ELSE receipt_waiters[n]]
    /\ registered' = [registered EXCEPT ![t] = Append(@, ran[t])]
    /\ waiters_lock' = {}
    /\ pc' = [pc EXCEPT ![t] = "send_message_packet"]
    /\ UNCHANGED <<op, readers, sent, result, friend_seq, seq, ran, nonSendVars>>

\* self.engine.read().await of build_send_message_packet
build_send_message_packet_read(t) ==
    /\ pc[t] = "send_message_packet"
    /\ EngineReadGranted(t)
    /\ readers' = readers \cup {t}
    /\ pc' = [pc EXCEPT ![t] = "send_message_build"]
    /\ UNCHANGED <<op, sent, result, sendVars, nonSendVars>>

\* build_send_message_packet(.., seq, ran, time); send_and_wait(req)
build_send_message_packet(t) ==
    /\ pc[t] = "send_message_build"
    /\ readers' = readers \ {t}
    /\ send_and_wait(t, Request("send_message", <<seq[t], ran[t]>>))
    /\ pc' = [pc EXCEPT ![t] = "send_message_wait"]
    /\ UNCHANGED <<op, result, sendVars, nonSendVars>>

\* MessageReceipt { seqs: vec![seq], rands: vec![ran], time }
MessageReceipt(sq, rn) == <<sq, rn>>

\* Faulty variant of send_message_reply: a failed call takes its entry out of
\* the registry.
send_message_reply_removing(t) ==
    /\ pc[t] = "send_message_wait"
    /\ \/ /\ awaited' = [awaited EXCEPT ![t] = @ + 1]
          /\ result' = [result EXCEPT ![t] = Ok(MessageReceipt(seq[t], ran[t]))]
          /\ pc' = [pc EXCEPT ![t] = "done"]
          /\ UNCHANGED receipt_waiters
       \/ /\ returns_err(t, NetworkError)
          /\ receipt_waiters' =
                [n \in DOMAIN receipt_waiters \ {ran[t]} |-> receipt_waiters[n]]
          /\ UNCHANGED awaited
    /\ UNCHANGED <<op, readers, sent, status, src_text_list, translations,
                   friend_seq, waiters_lock, seq, ran, registered, writer,
                   sync_cookie, pub_account_cookie, syncVars, failed,
                   uploadVars, downloadVars, elemVars>>

\* self.send_and_wait(req).await?; Ok(receipt)
send_message_reply(t) ==
    /\ pc[t] = "send_message_wait"
    /\ \/ /\ awaited' = [awaited EXCEPT ![t] = @ + 1]
          /\ result' = [result EXCEPT ![t] = Ok(MessageReceipt(seq[t], ran[t]))]
          /\ pc' = [pc EXCEPT ![t] = "done"]
       \/ /\ returns_err(t, NetworkError)
          /\ UNCHANGED awaited
    /\ UNCHANGED <<op, readers, sent, status, src_text_list, translations,
                   sendVars, writer, sync_cookie, pub_account_cookie, syncVars,
                   failed, uploadVars, downloadVars, elemVars>>

\* the steps of send_message
send_step(t) ==
    \/ send_message(t)
    \/ next_friend_seq(t)
    \/ receipt_waiters_lock(t)
    \/ cache_set(t)
    \/ build_send_message_packet_read(t)
    \/ build_send_message_packet(t)
    \/ send_message_reply(t)

SendNext == \E t \in Tasks : send_step(t)

SendSpec == Init /\ [][SendNext]_vars

(***************************************************************************)
(* download_msgs                                                           *)
(***************************************************************************)
\* download_msgs(res_id); multi_msg_apply_down: self.engine.read().await
download_msgs(t) ==
    /\ pc[t] = "idle"
    /\ EngineReadGranted(t)
    /\ readers' = readers \cup {t}
    /\ pc' = [pc EXCEPT ![t] = "apply_down_build"]
    /\ op' = [op EXCEPT ![t] = "download_msgs"]
    /\ UNCHANGED <<sent, result, downloadVars, nonDownloadVars>>

\* build_multi_msg_apply_down_req(res_id); the guard is dropped;
\* send_and_wait(req)
multi_msg_apply_down_send(t) ==
    /\ pc[t] = "apply_down_build"
    /\ readers' = readers \ {t}
    /\ send_and_wait(t, Request("apply_down", <<>>))
    /\ pc' = [pc EXCEPT ![t] = "apply_down_wait"]
    /\ UNCHANGED <<op, result, downloadVars, nonDownloadVars>>

\* send_and_wait(req).await? of multi_msg_apply_down, and the `?` of
\* download_msgs
multi_msg_apply_down_reply(t) ==
    /\ pc[t] = "apply_down_wait"
    /\ \/ /\ pc' = [pc EXCEPT ![t] = "apply_down_decode"]
          /\ UNCHANGED result
       \/ returns_err(t, NetworkError)
    /\ UNCHANGED <<op, readers, sent, downloadVars, nonDownloadVars>>

\* self.engine.read().await of the decode
multi_msg_apply_down_decode_read(t) ==
    /\ pc[t] = "apply_down_decode"
    /\ EngineReadGranted(t)
    /\ readers' = readers \cup {t}
    /\ pc' = [pc EXCEPT ![t] = "apply_down_decoding"]
    /\ UNCHANGED <<op, sent, result, downloadVars, nonDownloadVars>>

\* Vec::pop: the last element is taken off
last(v) == v[Len(v)]
pop(v) == SubSeq(v, 1, Len(v) - 1)

\* Faulty variant of result_rejected: every result code is accepted.
result_rejected_never(r) == FALSE

\* if resp.result != 0
result_rejected(r) == r.result # 0

\* Faulty variant of https_channel: every present channel type selects https.
https_channel_any(r) == r.msg_extern_info.some

\* if let Some(ExternMsg { channel_type }) = resp.msg_extern_info
\*    && channel_type == 2
https_channel(r) == r.msg_extern_info.some /\ r.msg_extern_info.v = 2

\* todo!(): the call panics where the download is not implemented
todo(t) == pc' = [pc EXCEPT ![t] = "panicked"]

\* the body of download_msgs after the descriptor r is bound to resp: no
\* await is left in it.
select_prefix(t, r) ==
    IF result_rejected(r)
    THEN /\ returns_err(t, Other("multi_msg_apply_down result " \o ToString(r.result)))
         /\ down_resp' = [down_resp EXCEPT ![t] = r]
         /\ UNCHANGED prefix
    ELSE IF https_channel(r)
    THEN /\ prefix' = [prefix EXCEPT ![t] =
                         [scheme |-> "https://ssl.htdata.qq.com", ip |-> 0, port |-> 0]]
         /\ down_resp' = [down_resp EXCEPT ![t] = r]
         /\ todo(t)
         /\ UNCHANGED result
    ELSE IF r.down_ip = <<>>
    THEN /\ returns_err(t, EmptyField("down_ip"))
         /\ down_resp' = [down_resp EXCEPT ![t] = r]
         /\ UNCHANGED prefix
    ELSE IF r.down_port = <<>>
    THEN /\ returns_err(t, EmptyField("down_port"))
         /\ down_resp' = [down_resp EXCEPT ![t] =
                            [r EXCEPT !.down_ip = pop(r.down_ip)]]
         /\ UNCHANGED prefix
    ELSE /\ prefix' = [prefix EXCEPT ![t] =
                         [scheme |-> "http://", ip |-> last(r.down_ip),
                          port |-> last(r.down_port)]]
         /\ down_resp' = [down_resp EXCEPT ![t] =
                            [r EXCEPT !.down_ip = pop(r.down_ip),
                                      !.down_port = pop(r.down_port)]]
         /\ todo(t)
         /\ UNCHANGED result

\* decode_multi_msg_apply_down_resp(resp.body)?; the guard is dropped and
\* the rest of download_msgs runs.
multi_msg_apply_down_decoded(t) ==
    /\ pc[t] = "apply_down_decoding"
    /\ readers' = readers \ {t}
    /\ \/ /\ returns_err(t, DecodeError)
          /\ UNCHANGED downloadVars
       \/ \E r \in MultiMsgApplyDownRsp :
            /\ descriptor' = [descriptor EXCEPT ![t] = r]
            /\ select_prefix(t, r)
    /\ UNCHANGED <<op, sent, nonDownloadVars>>

\* the steps of download_msgs
download_step(t) ==
    \/ download_msgs(t)
    \/ multi_msg_apply_down_send(t)
    \/ multi_msg_apply_down_reply(t)
    \/ multi_msg_apply_down_decode_read(t)
    \/ multi_msg_apply_down_decoded(t)

DownloadNext == \E t \in {1} : download_step(t)

DownloadSpec == Init /\ [][DownloadNext]_vars

(***************************************************************************)
(* delete_online_push                                                      *)
(***************************************************************************)
\* Transport: send hands the request to the transport and suspends the
\* caller until it is written; no response is waited for.
send(t, req) == sent' = [sent EXCEPT ![t] = Append(@, req)]

\* delete_online_push(uin, svrip, push_token, seq, del_msg):
\* self.engine.read().await
delete_online_push(t) ==
    /\ pc[t] = "idle"
    /\ EngineReadGranted(t)
    /\ readers' = readers \cup {t}
    /\ pc' = [pc EXCEPT ![t] = "online_push_build"]
    /\ op' = [op EXCEPT ![t] = "delete_online_push"]
    /\ UNCHANGED <<sent, result, downloadVars, nonDownloadVars>>

\* build_delete_online_push_packet(..); the guard is dropped; self.send(req)
delete_online_push_send(t) ==
    /\ pc[t] = "online_push_build"
    /\ readers' = readers \ {t}
    /\ send(t, Request("delete_online_push", <<>>))
    /\ pc' = [pc EXCEPT ![t] = "online_push_send"]
    /\ UNCHANGED <<op, result, downloadVars, nonDownloadVars>>

\* self.send(req).await?; Ok(())
delete_online_push_sent(t) ==
    /\ pc[t] = "online_push_send"
    /\ \/ /\ result' = [result EXCEPT ![t] = Ok(<<>>)]
          /\ pc' = [pc EXCEPT ![t] = "done"]
       \/ returns_err(t, NetworkError)
    /\ UNCHANGED <<op, readers, sent, downloadVars, nonDownloadVars>>

\* the steps of delete_online_push
push_step(t) ==
    \/ delete_online_push(t)
    \/ delete_online_push_send(t)
    \/ delete_online_push_sent(t)

\* One task makes any one of the calls.
CallNext ==
    \E t \in {1} :
        \/ sync_step(t) \/ upload_step(t) \/ api_step(t) \/ send_step(t)
        \/ download_step(t) \/ push_step(t)

CallSpec == Init /\ [][CallNext]_vars

(***************************************************************************)
(* The client: one task makes any of the calls while the others send      *)
(* messages.                                                               *)
(***************************************************************************)
Next ==
    \/ \E t \in {1} : \/ sync_step(t) \/ upload_step(t) \/ api_step(t)
                      \/ download_step(t) \/ push_step(t)
    \/ \E t \in Tasks : send_step(t)

Spec == Init /\ [][Next]_vars

(***************************************************************************)
(* Properties of the engine lock                                           *)
(***************************************************************************)
\* the positions at which a call is suspended in send_and_wait or in a
\* highway transfer
NetworkWaits ==
    {"sync_message_wait", "delete_message_wait", "apply_up_wait",
     "highway_upload_bdh", "online_status_wait", "translate_wait",
     "send_message_wait", "apply_down_wait", "online_push_send"}

\* task t is suspended waiting on the network
Waiting(t) == pc[t] \in NetworkWaits

\* C12: a call suspended waiting on the network holds neither a shared nor
\* the exclusive guard of the engine; the exclusive guard is held only by a
\* sync_all_message call, between taking it in an arm of the match and the
\* end of that arm.
C12_NoEngineLockAcrossWait ==
    /\ \A t \in Tasks : Waiting(t) => t \notin readers /\ t \notin writer
    /\ \A t \in writer : op[t] = "sync_all_message" /\ pc[t] = "engine_written"

\* the cursor of the first page was assigned under the exclusive guard and
\* the call is suspended in the request of the second page, with no guard
C12_Witness ==
    /\ op[1] = "sync_all_message"
    /\ pc[1] = "sync_message_wait"
    /\ Len(Requests(1, "sync")) = 2
    /\ acked[1] = 1
    /\ sync_cookie = 1
    /\ readers = {} /\ writer = {}

(***************************************************************************)
(* Properties of send_message                                              *)
(***************************************************************************)
\* C10: in every interleaving of concurrent sends, when a call hands its
\* message packet to the transport it has put the packet's nonce in the
\* registry before; a receipt returned carries the sequence number and the
\* nonce of the packet sent.
C10_RegisteredBeforeSend ==
    /\ [][\A t \in Tasks : sent'[t] # sent[t] =>
            /\ registered[t] = <<ran[t]>>
            /\ sent'[t] = <<Request("send_message", <<seq[t], ran[t]>>)>>]_vars
    /\ [](\A t \in Tasks :
            (op[t] = "send_message" /\ Returned(t) /\ result[t].kind = "Ok") =>
                /\ Len(sent[t]) = 1
                /\ result[t].val = sent[t][1].arg
                /\ registered[t] = <<sent[t][1].arg[2]>>)

\* two sends that drew the same nonce both returned their receipts
C10_Witness ==
    /\ \A t \in {1, 2} :
          /\ op[t] = "send_message" /\ Returned(t) /\ result[t].kind = "Ok"
    /\ ran[1] = ran[2]
    /\ seq[1] # seq[2]
    /\ ran[1] > 0

\* the largest i32, 2^31 - 1
I32_MAX == (2 ^ 30 - 1) * 2 + 1

\* C11: the nonce of every call, for every random value drawn, lies in
\* 0 .. 2^31 - 1; so does every nonce in the registry, in a packet sent and
\* in a receipt returned.
C11_NonceNonNegative ==
    /\ \A r \in RandomU32 : nonce(r) >= 0 /\ nonce(r) <= I32_MAX
    /\ \A t \in Tasks :
          /\ ran[t] >= 0 /\ ran[t] <= I32_MAX
          /\ \A i \in 1 .. Len(sent[t]) :
                sent[t][i].cmd = "send_message" => sent[t][i].arg[2] >= 0
          /\ (op[t] = "send_message" /\ result[t].kind = "Ok") =>
                result[t].val[2] >= 0
    /\ \A n \in DOMAIN receipt_waiters : n >= 0 /\ n <= I32_MAX

\* a call drew a random value with the top bit set (2^32 - 1), registered
\* the nonce 2^31 - 1 and returned it in its receipt
C11_Witness ==
    /\ op[1] = "send_message" /\ Returned(1) /\ result[1].kind = "Ok"
    /\ ran[1] = I32_MAX
    /\ ran[1] = nonce(<<2 ^ 16 - 1, 2 ^ 16 - 1>>)
    /\ ran[1] \in DOMAIN receipt_waiters
    /\ result[1].val[2] = ran[1]

(***************************************************************************)
(* impl From<msg::elem::Elem> for RQElem                                   *)
(***************************************************************************)
\* the typed element ty built from x by the From of its module
Wrap(ty, x) == [ty |-> ty, of |-> x]

\* Faulty variant of RQElem_Other: the payload of the element is dropped.
RQElem_Other_stripped(e) == RQElem("Other", [e EXCEPT !.body = <<>>])

\* RQElem::Other(Box::new(elem))
RQElem_Other(e) == RQElem("Other", e)

\* Elem::Text(e): if !e.attr6_buf().is_empty() { At } else { Text }
text(e) ==
    IF e.attr6_buf # <<>> THEN RQElem("At", Wrap("At", e))
    ELSE RQElem("Text", Wrap("Text", e))

\* Faulty variant of servtype3: the friend picture is looked at first.
servtype3_c2c_first(e) ==
    LET flash == e.pb_elem.d3 IN
    IF ~flash.ok THEN RQElem_Other(e)
    ELSE IF flash.flash_c2c_pic.some
    THEN RQElem("FlashImage", Wrap("FriendImage", flash.flash_c2c_pic.v))
    ELSE IF flash.flash_troop_pic.some
    THEN RQElem("FlashImage", Wrap("GroupImage", flash.flash_troop_pic.v))
    ELSE RQElem_Other(e)

\* 3 => if let Ok(flash) = MsgElemInfoServtype3::decode(e.pb_elem()) { .. }
servtype3(e) ==
    LET flash == e.pb_elem.d3 IN
    IF ~flash.ok THEN RQElem_Other(e)
    ELSE IF flash.flash_troop_pic.some
    THEN RQElem("FlashImage", Wrap("GroupImage", flash.flash_troop_pic.v))
    ELSE IF flash.flash_c2c_pic.some
    THEN RQElem("FlashImage", Wrap("FriendImage", flash.flash_c2c_pic.v))
    ELSE RQElem_Other(e)

\* 33 => if let Ok(new_face) = MsgElemInfoServtype33::decode(e.pb_elem()) {..}
servtype33(e) ==
    LET new_face == e.pb_elem.d33 IN
    IF new_face.ok THEN RQElem("Face", Wrap("Face", new_face.index))
    ELSE RQElem_Other(e)

\* Elem::CommonElem(ref e) => match e.service_type()
common_elem(e) ==
    CASE e.service_type = 3 -> servtype3(e)
      [] e.service_type = 33 -> servtype33(e)
      [] OTHER -> RQElem_Other(e)

\* Faulty variant of market_face: only the caption of the shop is a dice.
market_face_shop_only(e) ==
    LET face == [name |-> e.face_name, of |-> e] IN
    CASE face.name = RANDOM_DICE -> RQElem("Dice", Wrap("Dice", face))
      [] face.name = FINGER_GUESSING ->
            RQElem("FingerGuessing", Wrap("FingerGuessing", face))
      [] OTHER -> RQElem("MarketFace", face)

\* Elem::MarketFace(e) => { let face = MarketFace::from(e);
\*                          match face.name.as_str() { .. } }
market_face(e) ==
    LET face == [name |-> e.face_name, of |-> e] IN
    CASE face.name \in {DICE, RANDOM_DICE} -> RQElem("Dice", Wrap("Dice", face))
      [] face.name = FINGER_GUESSING ->
            RQElem("FingerGuessing", Wrap("FingerGuessing", face))
      [] OTHER -> RQElem("MarketFace", face)

\* Faulty variant of wrapper: the variant has the name of the kind.
wrapper_by_name(kind) == kind

\* the variant of the arms that only wrap the element
wrapper(kind) ==
    CASE kind = "Face" -> "Face"
      [] kind = "LightApp" -> "LightApp"
      [] kind = "RichMsg" -> "RichMsg"
      [] kind = "VideoFile" -> "VideoFile"
      [] kind = "NotOnlineImage" -> "FriendImage"
      [] kind = "CustomFace" -> "GroupImage"

\* fn from(elem: msg::elem::Elem) -> Self { match elem { .. } }
from(e) ==
    CASE e.kind = "Text" -> text(e)
      [] e.kind = "CommonElem" -> common_elem(e)
      [] e.kind = "MarketFace" -> market_face(e)
      [] e.kind \in {"Face", "LightApp", "RichMsg", "VideoFile",
                     "NotOnlineImage", "CustomFace"} ->
            RQElem(wrapper(e.kind), Wrap(wrapper(e.kind), e))
      [] OTHER -> RQElem_Other(e)

\* RQElem::from(elem) is called on the element given.
classify ==
    /\ rq_elem = NoRQElem
    /\ elem # NoElem
    /\ rq_elem' = from(elem)
    /\ UNCHANGED <<elem, clientVars>>

\* Any element may be given to the classifier.
ElemInit == InitCommon /\ session_key = <<>> /\ elem \in Elems

ElemNext == classify

ElemSpec == ElemInit /\ [][ElemNext]_vars

(***************************************************************************)
(* Properties of the classifier                                            *)
(***************************************************************************)
\* the element given has been classified
Classified == rq_elem # NoRQElem

\* C13: for every element the classifier returns: the call is never refused
\* and what it returns is one of the thirteen variants; when the variant is
\* Other it holds the element given, unchanged.
C13_TotalAndPassthrough ==
    /\ (elem # NoElem /\ ~Classified) => ENABLED classify
    /\ Classified =>
          /\ rq_elem.variant \in Variants
          /\ rq_elem.variant = "Other" => rq_elem.inner = elem

\* a CommonElem of service type 3 whose payload does not decode came back
\* as Other, holding the element with its payload
C13_Witness ==
    /\ Classified
    /\ elem.kind = "CommonElem" /\ elem.service_type = 3
    /\ ~elem.pb_elem.d3.ok /\ elem.pb_elem.d33.ok
    /\ rq_elem.variant = "Other"
    /\ rq_elem.inner.body = <<1>>

\* C14: a CommonElem is classified by its service type.  Type 3 whose
\* payload decodes gives FlashImage of a group image when the group picture
\* is there, else FlashImage of a friend image when the friend picture is
\* there, else Other; type 3 whose payload does not decode gives Other;
\* type 33 gives Face when the payload decodes and Other when it does not;
\* every other service type gives Other.
C14_CommonByServiceType ==
    (Classified /\ elem.kind = "CommonElem") =>
        LET st == elem.service_type
            flash == elem.pb_elem.d3
            new_face == elem.pb_elem.d33
        IN  /\ (st = 3 /\ flash.ok /\ flash.flash_troop_pic.some) =>
                  rq_elem = RQElem("FlashImage",
                                   Wrap("GroupImage", flash.flash_troop_pic.v))
            /\ (st = 3 /\ flash.ok /\ ~flash.flash_troop_pic.some
                       /\ flash.flash_c2c_pic.some) =>
                  rq_elem = RQElem("FlashImage",
                                   Wrap("FriendImage", flash.flash_c2c_pic.v))
            /\ (st = 3 /\ flash.ok /\ ~flash.flash_troop_pic.some
                       /\ ~flash.flash_c2c_pic.some) =>
                  rq_elem = RQElem("Other", elem)
            /\ (st = 3 /\ ~flash.ok) => rq_elem = RQElem("Other", elem)
            /\ (st = 33 /\ new_face.ok) => rq_elem.variant = "Face"
            /\ (st = 33 /\ ~new_face.ok) => rq_elem = RQElem("Other", elem)
            /\ st \notin {3, 33} => rq_elem = RQElem("Other", elem)

\* a flash descriptor with both pictures was classified as the flash of the
\* group image
C14_Witness ==
    /\ Classified
    /\ elem.kind = "CommonElem" /\ elem.service_type = 3
    /\ elem.pb_elem.d3.ok
    /\ elem.pb_elem.d3.flash_troop_pic.some
    /\ elem.pb_elem.d3.flash_c2c_pic.some
    /\ rq_elem.variant = "FlashImage"
    /\ rq_elem.inner.ty = "GroupImage"

\* C15: a MarketFace is classified by its caption: "[骰子]" and "[随机骰子]"
\* give Dice, "[猜拳]" gives FingerGuessing, and every other caption, however
\* close, gives MarketFace.
C15_MarketFaceByCaption ==
    (Classified /\ elem.kind = "MarketFace") =>
        /\ elem.face_name = DICE => rq_elem.variant = "Dice"
        /\ elem.face_name = RANDOM_DICE => rq_elem.variant = "Dice"
        /\ elem.face_name = FINGER_GUESSING => rq_elem.variant = "FingerGuessing"
        /\ elem.face_name \notin {DICE, RANDOM_DICE, FINGER_GUESSING} =>
              rq_elem.variant = "MarketFace"
        /\ rq_elem.inner # elem

\* the caption of a dice kept from before the shop was classified as Dice
C15_Witness ==
    /\ Classified
    /\ elem.kind = "MarketFace"
    /\ elem.face_name = DICE
    /\ rq_elem.variant = "Dice"
    /\ rq_elem.inner.of.name = DICE

\* the kinds the five wrapping arms take, and the variants they give
Wrapped == {"LightApp", "RichMsg", "VideoFile", "NotOnlineImage", "CustomFace"}
WrapperOf ==
    [k \in Wrapped |->
        CASE k = "LightApp" -> "LightApp"
          [] k = "RichMsg" -> "RichMsg"
          [] k = "VideoFile" -> "VideoFile"
          [] k = "NotOnlineImage" -> "FriendImage"
          [] k = "CustomFace" -> "GroupImage"]

\* C16 as stated: every kind other than Text, CommonElem, MarketFace and the
\* five wrapped kinds is classified as Other holding the element; the five
\* wrapped kinds give their variants.
C16_UnlistedArePassthrough ==
    Classified =>
        /\ elem.kind \notin {"Text", "CommonElem", "MarketFace"} \cup Wrapped =>
              rq_elem = RQElem("Other", elem)
        /\ elem.kind \in Wrapped => rq_elem.variant = WrapperOf[elem.kind]

\* C16 amended: every kind the match does not name is classified as Other
\* holding the element; a Face is classified as Face; the five wrapped kinds
\* give their variants, different kinds different variants, each holding
\* what its From makes of the element.
C16_UnnamedArePassthrough ==
    /\ \A k1, k2 \in Wrapped : WrapperOf[k1] = WrapperOf[k2] => k1 = k2
    /\ Classified =>
        /\ elem.kind \notin NamedKinds => rq_elem = RQElem("Other", elem)
        /\ elem.kind = "Face" => rq_elem = RQElem("Face", Wrap("Face", elem))
        /\ elem.kind \in Wrapped =>
              rq_elem = RQElem(WrapperOf[elem.kind],
                               Wrap(WrapperOf[elem.kind], elem))

\* an element of a kind the match does not name came back as Other with its
\* payload
C16_Witness ==
    /\ Classified
    /\ elem.kind = "SrcMsg"
    /\ elem.body = <<1, 2>>
    /\ rq_elem.variant = "Other"
    /\ rq_elem.inner.body = <<1, 2>>

(***************************************************************************)
(* Properties of download_msgs                                             *)
(***************************************************************************)
\* the descriptor of task t was decoded
HasDescriptor(t) == descriptor[t] # NoDescriptor

\* C17: once the descriptor is decoded, a result code other than zero makes
\* download_msgs fail with the "multi_msg_apply_down result" error, with no
\* prefix chosen and no candidate taken; with result code zero and channel
\* type 2 the prefix is the fixed https one and no candidate is taken;
\* otherwise one address and one port are taken off the lists, the last of
\* each, and the prefix is built from them, or the call fails with the
\* missing-field error of the list that is empty; in no case is a second
\* request sent.
C17_DescriptorToPrefix ==
    \A t \in Tasks : (op[t] = "download_msgs" /\ HasDescriptor(t)) =>
        LET d == descriptor[t]
            r == down_resp[t]
            https == d.msg_extern_info = Some(2)
        IN  /\ Len(sent[t]) = 1
            /\ d.result # 0 =>
                  /\ Returned(t) /\ result[t].kind = "Err"
                  /\ result[t].err =
                        Other("multi_msg_apply_down result " \o ToString(d.result))
                  /\ prefix[t] = NoPrefix
                  /\ r = d
            /\ (d.result = 0 /\ https) =>
                  /\ prefix[t].scheme = "https://ssl.htdata.qq.com"
                  /\ r = d
                  /\ result[t] = NoResult
            /\ (d.result = 0 /\ ~https /\ d.down_ip # <<>> /\ d.down_port # <<>>) =>
                  /\ prefix[t].scheme = "http://"
                  /\ d.down_ip = Append(r.down_ip, prefix[t].ip)
                  /\ d.down_port = Append(r.down_port, prefix[t].port)
                  /\ result[t] = NoResult
            /\ (d.result = 0 /\ ~https /\ d.down_ip = <<>>) =>
                  /\ Returned(t) /\ result[t] = Err(EmptyField("down_ip"))
                  /\ prefix[t] = NoPrefix
                  /\ r = d
            /\ (d.result = 0 /\ ~https /\ d.down_ip # <<>> /\ d.down_port = <<>>) =>
                  /\ Returned(t) /\ result[t] = Err(EmptyField("down_port"))
                  /\ prefix[t] = NoPrefix
                  /\ r.down_port = <<>>

\* with three addresses and two ports and a channel type other than 2, the
\* last address and the last port were taken and the others left
C17_Witness ==
    /\ op[1] = "download_msgs" /\ HasDescriptor(1)
    /\ descriptor[1].result = 0
    /\ descriptor[1].msg_extern_info = Some(1)
    /\ Len(descriptor[1].down_ip) = 3 /\ Len(descriptor[1].down_port) = 2
    /\ prefix[1] = [scheme |-> "http://", ip |-> 3, port |-> 20]
    /\ Len(down_resp[1].down_ip) = 2 /\ Len(down_resp[1].down_port) = 1

(***************************************************************************)
(* Order of the steps of sync_all_message                                  *)
(***************************************************************************)
\* the cursors hold what the page gives them
CursorsOf(page) ==
    /\ sync_cookie = new_sync_cookie(page, sync_cookie)
    /\ pub_account_cookie = new_pub_account_cookie(page, pub_account_cookie)

\* C18: the requests of a sync_all_message call alternate fetch and
\* acknowledgment and none is sent while another is outstanding; page k is
\* acknowledged before it is appended, and page k + 1 is fetched only when
\* page k is acknowledged, its cursors assigned and its messages appended;
\* the cursors change only in the arm of an acknowledged page, before its
\* messages are appended, and never in or after a step that fails.
C18_StrictlySequential ==
    /\ [](\A t \in Tasks : op[t] = "sync_all_message" =>
            \A i \in 1 .. Len(sent[t]) :
                sent[t][i].cmd = IF i % 2 = 1 THEN "sync" ELSE "delete")
    /\ [][\A t \in Tasks : (op[t] = "sync_all_message" /\ sent'[t] # sent[t]) =>
            LET k == Len(fetched[t]) IN
            /\ ~Waiting(t)
            /\ Len(sent'[t]) = Len(sent[t]) + 1
            /\ IF sent'[t][Len(sent'[t])].cmd = "delete"
               THEN /\ acked[t] = k - 1
                    /\ msgs[t] = Concat(fetched[t], k - 1)
               ELSE /\ acked[t] = k
                    /\ msgs[t] = Concat(fetched[t], k)
                    /\ k >= 1 => CursorsOf(resp[t])]_vars
    /\ [][(sync_cookie' # sync_cookie \/ pub_account_cookie' # pub_account_cookie) =>
            \E t \in Tasks :
                /\ pc[t] = "engine_written"
                /\ failed[t] = "none" /\ failed'[t] = "none"
                /\ acked[t] >= 1 /\ acked[t] = Len(fetched[t])
                /\ msgs[t] = Concat(fetched[t], acked[t] - 1)
                /\ msgs'[t] = Concat(fetched[t], acked[t])]_vars

\* the acknowledgment of the second page failed: the page would have set
\* both cursors, and they are those of the first page
C18_Witness ==
    /\ Returned(1) /\ failed[1] = "ack"
    /\ Len(fetched[1]) = 2 /\ acked[1] = 1
    /\ resp[1].msg_rsp_type = 0
    /\ resp[1].sync_cookie = Some(2) /\ resp[1].pub_account_cookie = Some(2)
    /\ sync_cookie = 1 /\ pub_account_cookie = 1

\* C19: when an acknowledged page is accepted, a tag other than 0, 1, 2
\* leaves both cursors as they are, and a cursor whose value the page does
\* not carry is left as it is whatever the tag, so that no cursor is ever
\* assigned an absent value; the messages of the page are appended and the
\* next flag of the page taken, the loop going on unless that flag is STOP.
C19_AbsentKeepsCursor ==
    /\ [](sync_cookie # None.v /\ pub_account_cookie # None.v)
    /\ [][\A t \in Tasks : Accepts(t) =>
            LET p == resp[t] IN
            /\ p.msg_rsp_type \notin {0, 1, 2} =>
                  UNCHANGED <<sync_cookie, pub_account_cookie>>
            /\ ~p.sync_cookie.some => UNCHANGED sync_cookie
            /\ ~p.pub_account_cookie.some => UNCHANGED pub_account_cookie
            /\ msgs'[t] = msgs[t] \o p.msgs
            /\ sync_flag'[t] = p.sync_flag
            /\ pc'[t] = IF p.sync_flag = SYNC_STOP THEN "done" ELSE "sync_message"]_vars

\* the first page had a tag that is none of 0, 1, 2 and carried both
\* cursors and a message: the cursors are as they were, the message is
\* appended and the loop goes on to the second page
C19_Witness ==
    /\ acked[1] = 1 /\ Len(fetched[1]) = 1
    /\ resp[1].msg_rsp_type = 3
    /\ resp[1].sync_cookie = Some(1) /\ resp[1].pub_account_cookie = Some(1)
    /\ sync_cookie = 0 /\ pub_account_cookie = 0
    /\ msgs[1] = resp[1].msgs /\ msgs[1] # <<>>
    /\ sync_flag[1] = SYNC_CONTINUE
    /\ pc[1] = "sync_message"

\* C20: a send_message call whose send_and_wait failed returns the error
\* of the transport and no receipt, after one request, and the nonce it
\* registered is in the registry; no step of send_message, of this call or
\* of another, whether it succeeds or fails, takes a nonce out of the
\* registry.
C20_FailedSendKeepsEntry ==
    /\ [](\A t \in Tasks :
            (op[t] = "send_message" /\ Returned(t) /\ result[t].kind # "Ok") =>
                /\ result[t] = Err(NetworkError)
                /\ result[t].val = <<>>
                /\ Len(sent[t]) = 1 /\ awaited[t] = 0
                /\ registered[t] = <<ran[t]>>
                /\ ran[t] \in DOMAIN receipt_waiters)
    /\ [][DOMAIN receipt_waiters \subseteq DOMAIN receipt_waiters']_vars

\* a send failed after another call had registered a different nonce: both
\* nonces are in the registry, the failed call's under its own task
C20_Witness ==
    /\ op[1] = "send_message" /\ Returned(1)
    /\ result[1] = Err(NetworkError)
    /\ op[2] = "send_message" /\ Returned(2) /\ result[2].kind = "Ok"
    /\ ran[1] # ran[2]
    /\ {ran[1], ran[2]} \subseteq DOMAIN receipt_waiters
    /\ receipt_waiters[ran[1]] = 1

(***************************************************************************)
(* Concurrent calls on the three locks: task 1 makes sync_all_message and *)
(* every other task send_message or upload_msgs.  The locks are taken the *)
(* same way whatever the server answers, so the answers are kept small:   *)
(* pages without messages or cursors, of a tag that takes the exclusive   *)
(* guard (1) or not (3); one nonce; at most one upload candidate.         *)
(***************************************************************************)
BarePage(p) ==
    /\ p.msgs = <<>>
    /\ p.sync_cookie = None /\ p.pub_account_cookie = None
    /\ p.msg_rsp_type \in {0 - 1, 1, 3}
BareNonce(n) == n = 0
BareRsp(r) ==
    /\ r.msg_resid \in {0, 7}
    /\ Len(r.uint32_up_ip) <= 1
    /\ Len(r.uint32_up_port) = Len(r.uint32_up_ip)

\* the steps of sync_all_message, the page decoded being a bare one
bare_sync_step(t) ==
    \/ sync_all_message(t)
    \/ sync_message_read(t)
    \/ sync_message_send(t)
    \/ sync_message_reply(t)
    \/ sync_message_decode_read(t)
    \/ sync_message_decoded(t) /\ BarePage(resp'[t])
    \/ delete_message_read(t)
    \/ delete_message_send(t)
    \/ delete_message_reply(t)
    \/ engine_write(t)
    \/ update_cookies(t)

\* the steps of send_message, the nonce drawn being the bare one
bare_send_step(t) ==
    \/ send_message(t)
    \/ next_friend_seq(t) /\ BareNonce(ran'[t])
    \/ receipt_waiters_lock(t)
    \/ cache_set(t)
    \/ build_send_message_packet_read(t)
    \/ build_send_message_packet(t)
    \/ send_message_reply(t)

\* the steps of upload_msgs of a forward message, the ticket decoded being a
\* bare one
bare_upload_step(t) ==
    \/ upload_msgs(t) /\ ~is_long'[t]
    \/ calculate_validation_data(t)
    \/ multi_msg_apply_up_read(t)
    \/ multi_msg_apply_up_send(t)
    \/ multi_msg_apply_up_reply(t)
    \/ multi_msg_apply_up_decode_read(t)
    \/ multi_msg_apply_up_decoded(t) /\ BareRsp(rsp'[t])
    \/ highway_session_read(t)
    \/ session_key_checked(t)
    \/ build_long_req_read(t)
    \/ build_long_req(t)
    \/ highway_upload_bdh(t)

\* the steps of task t among the concurrent calls
lock_step(t) ==
    \/ t = 1 /\ bare_sync_step(t)
    \/ t # 1 /\ bare_send_step(t)
    \/ t # 1 /\ bare_upload_step(t)

LockNext ==
    \/ \E t \in {1} : bare_sync_step(t)
    \/ \E t \in Tasks \ {1} : bare_send_step(t)
    \/ \E t \in Tasks \ {1} : bare_upload_step(t)

LockSpec == Init /\ [][LockNext]_vars

\* Every task is polled until it returns: a step of a task that stays
\* enabled is eventually taken.
LockFairSpec == LockSpec /\ \A t \in Tasks : WF_vars(lock_step(t))

(***************************************************************************)
(* Properties of the locks                                                 *)
(***************************************************************************)
\* the locks task t holds a guard of
HeldLocks(t) ==
    (IF t \in readers \cup writer THEN {"engine"} ELSE {})
    \cup (IF t \in hw_readers THEN {"highway_session"} ELSE {})
    \cup (IF t \in waiters_lock THEN {"receipt_waiters"} ELSE {})

\* task t has come to the end of its call, or to the page bound of the model
Ended(t) ==
    \/ pc[t] \in {"done", "panicked"}
    \/ pc[t] = "sync_message" /\ Len(Requests(t, "sync")) >= MaxPages

\* C21, safety: a task holds one lock at most, takes a lock only while it holds
\* none and drops it in its next step, which it can always take; so some
\* task can step as long as a call has not ended.  While a call waits for
\* the exclusive guard of the engine no further shared guard is given out,
\* and the exclusive guard is granted as soon as the shared ones are dropped.
C21_NoNestedLocks ==
    /\ [](\A t \in Tasks :
            /\ Cardinality(HeldLocks(t)) <= 1
            /\ HeldLocks(t) # {} => ENABLED lock_step(t)
            /\ pc[t] = "engine_write" =>
                  /\ HeldLocks(t) = {}
                  /\ (readers = {} /\ writer = {}) => ENABLED engine_write(t)
                  /\ readers # {} => \E u \in readers : ENABLED lock_step(u))
    /\ []((\E t \in Tasks : ~Ended(t)) => ENABLED LockNext)
    /\ [][\A t \in Tasks :
            /\ HeldLocks(t) # {} => (pc'[t] # pc[t] => HeldLocks(t)' = {})
            /\ HeldLocks(t)' # {} /\ HeldLocks(t)' # HeldLocks(t) =>
                  HeldLocks(t) = {}
            /\ WriteQueued # {} /\ t \in readers' => t \in readers]_vars

\* C21, fairness: under the fair specification a call waiting for the
\* exclusive guard of the engine is granted it.
C21_WriteEventuallyGranted ==
    \A t \in {1} : pc[t] = "engine_write" ~> pc[t] = "engine_written"

\* C21: no lock is taken by a task that holds one, no state is reached in
\* which the calls block each other, and under fair scheduling a call
\* waiting for the exclusive guard of the engine is granted it.
C21_LocksNeverNestedWriterServed ==
    C21_NoNestedLocks /\ C21_WriteEventuallyGranted

\* task 1 waits for the exclusive guard, which is not granted while task 2,
\* having put its nonce in the registry, holds the shared guard under which
\* it builds its packet
C21_Witness ==
    /\ pc[1] = "engine_write"
    /\ readers = {2}
    /\ op[2] = "send_message" /\ pc[2] = "send_message_build"
    /\ registered[2] # <<>>
    /\ ~ENABLED engine_write(1)

====
